---------------------------- MODULE Spec2Model ----------------------------
(* Model of src/src/ui/sessionManager.ts: the SessionManager registries,   *)
(* the single-flight creation of a Session per Target, the host callback   *)
(* createDebugAdapterDescriptor, releaseDap, the termination handler and   *)
(* dispose.  One action per handler; the continuation after the `await`    *)
(* of the parent's session (line 116) is a step of its own, because other  *)
(* handlers run while the executor is suspended there.                     *)
EXTENDS Integers, Sequences, FiniteSets, TLC

\* Number of single-flight futures (new Promise at line 109) one run creates.
MaxFutures == 3

\* Number of name changes the targets of one run go through.
MaxRenames == 1

\* Number of futures a run creates in the environment with name changes.
MaxNamedFutures == 2

None == "none"

\* The forest of targets the binder discovers: A is attached under the root
\* debug session, B is a child of A, C a child of B.
Targets == {"A", "B", "C"}

parent(t) == CASE t = "B" -> "A" [] t = "C" -> "B" [] OTHER -> None

id(t) == CASE t = "A" -> "idA" [] t = "B" -> "idB" [] OTHER -> "idC"

targetOrigin(t) == 0

Ids == {id(t) : t \in Targets}

\* Host debug-session identities: the root session, and one per start request.
RootId == targetOrigin("A")
DebugIds == 0 .. MaxFutures

VARIABLES
  checkVersion,               \* checkVersion('1.39.0') of this host
  sess,                       \* the Session objects, by debugSession.id
  sessions,                   \* _sessions: the ids that map to their Session
  pendingTarget,              \* _pendingTarget: id -> Target
  sessionForTarget,           \* _sessionForTarget: Target -> future (0: absent)
  sessionForTargetCallbacks,  \* _sessionForTargetCallbacks: Target -> future
  futures,                    \* the promises of line 109 and their executors
  started,                    \* the host's startDebugging requests, in order
  disposables,                \* _disposables holds the termination subscription
  targetName                  \* Target.name(), as the number of its changes

vars == <<checkVersion, sess, sessions, pendingTarget, sessionForTarget,
          sessionForTargetCallbacks, futures, started, disposables,
          targetName>>

\* A Session: whether it was constructed, has a binder, the target whose
\* name changes it is subscribed to (_onTargetNameChanged), how often its
\* transport was closed, and its debugSession.name with the number of times
\* the name-change callback assigned it.
NoSession ==
  [made |-> FALSE, binder |-> FALSE, listening |-> None, closed |-> 0,
   name |-> 0, updates |-> 0]

Init ==
  /\ checkVersion \in BOOLEAN
  /\ sess = [d \in DebugIds |-> NoSession]
  /\ sessions = {}
  /\ pendingTarget = [i \in Ids |-> None]
  /\ sessionForTarget = [t \in Targets |-> 0]
  /\ sessionForTargetCallbacks = [t \in Targets |-> 0]
  /\ futures = <<>>
  /\ started = <<>>
  /\ disposables = TRUE
  /\ targetName = [t \in Targets |-> 0]

----------------------------------------------------------------------------
\* A future is [target, state, value, pc, awaits]: the promise's state and
\* value, and where its executor stands (pc; awaits: the future it is
\* suspended on at line 116).
\* Promise semantics: settling a settled promise changes nothing.

FulfillForgotten(futs, f, d) == futs

Fulfill(futs, f, d) ==
  IF futs[f].state = "pending"
    THEN [futs EXCEPT ![f].state = "fulfilled", ![f].value = d]
    ELSE futs

Reject(futs, f) ==
  IF futs[f].state = "pending"
    THEN [futs EXCEPT ![f].state = "rejected"]
    ELSE futs

\* vscode.debug.startDebugging(..., config, parentDebugSession), issued by the
\* executor of future f.
\* `inserted` records whether _sessionForTarget already held the target when
\* the host was asked (the set of line 109 runs after the executor returns).
StartDebuggingTwice(reqs, t, parentDebugSession, f, inserted) ==
  LET r == [marker |-> id(t), parent |-> parentDebugSession,
            by |-> f, status |-> "requested", inserted |-> inserted,
            request |-> "attach", name |-> targetName[t]]
  IN Append(Append(reqs, r), r)

StartDebugging(reqs, t, parentDebugSession, f, inserted) ==
  Append(reqs, [marker |-> id(t), parent |-> parentDebugSession,
                by |-> f, status |-> "requested", inserted |-> inserted,
                request |-> "attach", name |-> targetName[t]])

\* Session.dispose
SessionDispose(s) == [s EXCEPT !.closed = s.closed + 1, !.listening = None]

\* Session.listenToTarget
ListenToTargetAlways(s, target) == [s EXCEPT !.listening = target]

ListenToTarget(s, target) ==
  IF checkVersion THEN [s EXCEPT !.listening = target] ELSE s

\* new Session(debugSession): the host named the debug session after the
\* configuration that started it.
NewSession(name) == [NoSession EXCEPT !.made = TRUE, !.name = name]

----------------------------------------------------------------------------
\* _createSession(target), up to the point where every executor it started
\* has either suspended at the await of line 116 or run to its end.

\* this._sessionForTarget.has(target)
HasNever(sft, t) == FALSE

Has(sft, t) == sft[t] # 0

\* const parentTarget = target.parent()
ParentTargetNone(t) == None

ParentTarget(t) == parent(t)

RECURSIVE CreateSession(_, _)
CreateSession(st, t) ==
  IF Has(st.sft, t)
    THEN [st EXCEPT !.ret = st.sft[t]]
    ELSE
      LET f  == Len(st.futs) + 1
          s1 == [st EXCEPT
                   !.futs = Append(st.futs,
                              [target |-> t, state |-> "pending", value |-> 0,
                               pc |-> "run", awaits |-> 0]),
                   !.pt[id(t)] = t,
                   !.cbs[t] = f]
      IN IF ParentTarget(t) # None
           THEN LET s2 == CreateSession(s1, ParentTarget(t))
                IN [s2 EXCEPT !.futs[f].pc = "await",
                              !.futs[f].awaits = s2.ret,
                              !.sft[t] = f,
                              !.ret = f]
           ELSE IF targetOrigin(t) \in sessions
                  THEN [s1 EXCEPT
                          !.reqs = StartDebugging(s1.reqs, t, targetOrigin(t), f,
                                                  Has(s1.sft, t)),
                          !.futs[f].pc = "done",
                          !.sft[t] = f,
                          !.ret = f]
                  ELSE [s1 EXCEPT !.futs[f].pc = "threw",
                                  !.sft[t] = f,
                                  !.ret = f]

\* The futures a call of _createSession(t) creates.
RECURSIVE Needed(_, _)
Needed(sft, t) ==
  IF t = None \/ sft[t] # 0 THEN 0 ELSE 1 + Needed(sft, parent(t))

Manager ==
  [pt |-> pendingTarget, sft |-> sessionForTarget,
   cbs |-> sessionForTargetCallbacks, futs |-> futures, reqs |-> started,
   ret |-> 0]

AcquireDap(t) ==
  /\ Len(futures) + Needed(sessionForTarget, t) <= MaxFutures
  /\ LET r == CreateSession(Manager, t)
     IN /\ pendingTarget' = r.pt
        /\ sessionForTarget' = r.sft
        /\ sessionForTargetCallbacks' = r.cbs
        /\ futures' = r.futs
        /\ started' = r.reqs
  /\ UNCHANGED <<checkVersion, targetName, sess, sessions, disposables>>

\* parentDebugSession = parentSession.debugSession, for the settled parent
\* future p
ParentDebugSessionRoot(p) == RootId

ParentDebugSession(p) == p.value

\* The executor of future f resumes after `await this._createSession(parent)`.
Runnable(f) ==
  /\ futures[f].pc = "await"
  /\ futures[futures[f].awaits].state # "pending"

Resume(f) ==
  /\ Runnable(f)
  /\ LET p == futures[futures[f].awaits]
     IN IF p.state = "fulfilled"
          THEN /\ started' = StartDebugging(started, futures[f].target,
                                             ParentDebugSession(p),
                                             f, Has(sessionForTarget,
                                                    futures[f].target))
               /\ futures' = [futures EXCEPT ![f].pc = "done"]
          ELSE /\ futures' = [futures EXCEPT ![f].pc = "threw"]
               /\ UNCHANGED started
  /\ UNCHANGED <<checkVersion, targetName, sess, sessions, pendingTarget, sessionForTarget,
                 sessionForTargetCallbacks, disposables>>

\* Promise reactions run before the host delivers its next event.
NoneRunnable == \A f \in 1 .. Len(futures) : ~Runnable(f)

----------------------------------------------------------------------------
\* createDebugAdapterDescriptor(debugSession) for the debug session d whose
\* configuration carries `marker` (None: no __pendingTargetId).

CreateDebugAdapterDescriptor(d, marker) ==
  IF marker = None
    THEN /\ sess' = [sess EXCEPT ![d] = [NewSession(0) EXCEPT !.binder = TRUE]]
         /\ sessions' = sessions \cup {d}
         /\ UNCHANGED <<pendingTarget, sessionForTargetCallbacks, futures>>
    ELSE LET target == pendingTarget[marker]
             session == NewSession(started[d].name)
         IN /\ pendingTarget' = [pendingTarget EXCEPT ![marker] = None]
            /\ IF target = None
                 THEN IF checkVersion
                        \* listenToTarget(undefined) throws at line 34
                        THEN /\ sess' = [sess EXCEPT ![d] = session]
                             /\ UNCHANGED <<sessions, sessionForTargetCallbacks,
                                            futures>>
                        ELSE /\ sess' = [sess EXCEPT ![d] = session]
                             /\ sessions' = sessions \cup {d}
                             /\ UNCHANGED <<sessionForTargetCallbacks, futures>>
                 ELSE LET callbacks == sessionForTargetCallbacks[target]
                      IN /\ sess' = [sess EXCEPT ![d] =
                                       ListenToTarget(session, target)]
                         /\ sessionForTargetCallbacks' =
                              [sessionForTargetCallbacks EXCEPT ![target] = 0]
                         /\ futures' = IF callbacks # 0
                                         THEN Fulfill(futures, callbacks, d)
                                         ELSE futures
                         /\ sessions' = sessions \cup {d}

\* The host materializes the root debug session (a launch, no marker).
HostLaunch ==
  /\ NoneRunnable
  /\ ~sess[RootId].made
  /\ CreateDebugAdapterDescriptor(RootId, None)
  /\ UNCHANGED <<checkVersion, targetName, sessionForTarget, started, disposables>>

\* The host answers start request d by calling the factory, once.
HostAttach(d) ==
  /\ NoneRunnable
  /\ d \in DOMAIN started /\ d \in DebugIds
  /\ started[d].status = "requested"
  /\ CreateDebugAdapterDescriptor(d, started[d].marker)
  /\ started' = [started EXCEPT ![d].status =
                   IF d \in sessions' THEN "materialized" ELSE "failed"]
  /\ UNCHANGED <<checkVersion, targetName, sessionForTarget, disposables>>

\* The onDidTerminateDebugSession handler, for debug session d.
TerminateKeep(d) ==
  /\ NoneRunnable
  /\ disposables
  /\ sess' = IF d \in sessions THEN [sess EXCEPT ![d] = SessionDispose(sess[d])]
                               ELSE sess
  /\ UNCHANGED <<checkVersion, targetName, sessions, pendingTarget, sessionForTarget,
                 sessionForTargetCallbacks, futures, started, disposables>>

Terminate(d) ==
  /\ NoneRunnable
  /\ disposables
  /\ sessions' = sessions \ {d}
  /\ sess' = IF d \in sessions THEN [sess EXCEPT ![d] = SessionDispose(sess[d])]
                               ELSE sess
  /\ UNCHANGED <<checkVersion, targetName, pendingTarget, sessionForTarget,
                 sessionForTargetCallbacks, futures, started, disposables>>

ReleaseDapNoReject(t) ==
  /\ sessionForTarget' = [sessionForTarget EXCEPT ![t] = 0]
  /\ sessionForTargetCallbacks' = [sessionForTargetCallbacks EXCEPT ![t] = 0]
  /\ UNCHANGED <<checkVersion, targetName, sess, sessions, pendingTarget, futures, started,
                 disposables>>

ReleaseDapAll(t) ==
  /\ sessionForTarget' = [u \in Targets |-> 0]
  /\ futures' = IF sessionForTargetCallbacks[t] # 0
                  THEN Reject(futures, sessionForTargetCallbacks[t])
                  ELSE futures
  /\ sessionForTargetCallbacks' = [u \in Targets |-> 0]
  /\ UNCHANGED <<checkVersion, targetName, sess, sessions, pendingTarget, started,
                 disposables>>

ReleaseDapKeepCallbacks(t) ==
  /\ sessionForTarget' = [sessionForTarget EXCEPT ![t] = 0]
  /\ futures' = IF sessionForTargetCallbacks[t] # 0
                  THEN Reject(futures, sessionForTargetCallbacks[t])
                  ELSE futures
  /\ UNCHANGED <<checkVersion, targetName, sess, sessions, pendingTarget,
                 sessionForTargetCallbacks, started, disposables>>

ReleaseDapDisposing(t) ==
  /\ sessionForTarget' = [sessionForTarget EXCEPT ![t] = 0]
  /\ futures' = IF sessionForTargetCallbacks[t] # 0
                  THEN Reject(futures, sessionForTargetCallbacks[t])
                  ELSE futures
  /\ sessionForTargetCallbacks' = [sessionForTargetCallbacks EXCEPT ![t] = 0]
  /\ LET gone == IF sessionForTarget[t] # 0
                     /\ futures[sessionForTarget[t]].state = "fulfilled"
                   THEN {futures[sessionForTarget[t]].value} \cap sessions
                   ELSE {}
     IN /\ sessions' = sessions \ gone
        /\ sess' = [d \in DebugIds |->
                      IF d \in gone THEN SessionDispose(sess[d]) ELSE sess[d]]
  /\ UNCHANGED <<checkVersion, targetName, pendingTarget, started, disposables>>

ReleaseDap(t) ==
  /\ sessionForTarget' = [sessionForTarget EXCEPT ![t] = 0]
  /\ futures' = IF sessionForTargetCallbacks[t] # 0
                  THEN Reject(futures, sessionForTargetCallbacks[t])
                  ELSE futures
  /\ sessionForTargetCallbacks' = [sessionForTargetCallbacks EXCEPT ![t] = 0]
  /\ UNCHANGED <<checkVersion, targetName, sess, sessions, pendingTarget, started,
                 disposables>>

\* SessionManager.dispose
DisposeKeepCallbacks ==
  /\ NoneRunnable
  /\ sess' = [d \in DebugIds |->
                IF d \in sessions THEN SessionDispose(sess[d]) ELSE sess[d]]
  /\ sessions' = {}
  /\ pendingTarget' = [i \in Ids |-> None]
  /\ sessionForTarget' = [t \in Targets |-> 0]
  /\ disposables' = FALSE
  /\ UNCHANGED <<checkVersion, targetName, sessionForTargetCallbacks, futures, started>>

DisposeRejecting ==
  /\ NoneRunnable
  /\ sess' = [d \in DebugIds |->
                IF d \in sessions THEN SessionDispose(sess[d]) ELSE sess[d]]
  /\ sessions' = {}
  /\ pendingTarget' = [i \in Ids |-> None]
  /\ sessionForTarget' = [t \in Targets |-> 0]
  /\ sessionForTargetCallbacks' = [t \in Targets |-> 0]
  /\ futures' = [f \in 1 .. Len(futures) |->
                   IF \E t \in Targets : sessionForTargetCallbacks[t] = f
                     THEN [futures[f] EXCEPT !.state = "rejected"]
                     ELSE futures[f]]
  /\ disposables' = FALSE
  /\ UNCHANGED <<checkVersion, targetName, started>>

Dispose ==
  /\ NoneRunnable
  /\ sess' = [d \in DebugIds |->
                IF d \in sessions THEN SessionDispose(sess[d]) ELSE sess[d]]
  /\ sessions' = {}
  /\ pendingTarget' = [i \in Ids |-> None]
  /\ sessionForTarget' = [t \in Targets |-> 0]
  /\ sessionForTargetCallbacks' = [t \in Targets |-> 0]
  /\ disposables' = FALSE
  /\ UNCHANGED <<checkVersion, targetName, futures, started>>

\* The target's onNameChanged event: every live subscription made by
\* listenToTarget runs `this.debugSession.name = target.name()`.
Renames == targetName["A"] + targetName["B"] + targetName["C"]

NameChanged(t) ==
  /\ NoneRunnable
  /\ Renames < MaxRenames
  /\ targetName' = [targetName EXCEPT ![t] = targetName[t] + 1]
  /\ sess' = [d \in DebugIds |->
                IF sess[d].listening = t
                  THEN [sess[d] EXCEPT !.name = targetName'[t],
                                       !.updates = sess[d].updates + 1]
                  ELSE sess[d]]
  /\ UNCHANGED <<checkVersion, sessions, pendingTarget, sessionForTarget,
                 sessionForTargetCallbacks, futures, started, disposables>>

Next ==
  \/ \E t \in Targets : AcquireDap(t)
  \/ \E f \in 1 .. Len(futures) : Resume(f)
  \/ HostLaunch
  \/ \E d \in 1 .. Len(started) : HostAttach(d)
  \/ \E d \in DebugIds : Terminate(d)
  \/ \E t \in Targets : ReleaseDap(t)
  \/ Dispose

Spec == Init /\ [][Next]_vars

\* The manager in an environment whose targets change their names.
NextNames ==
  \/ \E t \in Targets : AcquireDap(t) /\ Len(futures') <= MaxNamedFutures
  \/ \E f \in 1 .. Len(futures) : Resume(f)
  \/ HostLaunch
  \/ \E d \in 1 .. Len(started) : HostAttach(d)
  \/ \E d \in DebugIds : Terminate(d)
  \/ \E t \in Targets : ReleaseDap(t)
  \/ Dispose
  \/ \E t \in Targets : NameChanged(t)

SpecNames == Init /\ [][NextNames]_vars

----------------------------------------------------------------------------
\* C1: a call of _createSession(T) / acquireDap(T) made while T has an entry in
\* sessionForTarget returns that very future, creates no future and issues no
\* start request; every call returns the future the cache then holds; and the
\* entry of T is replaced or removed only by releaseDap(T) or dispose().
C1_SingleFlightSharing ==
  [][\A t \in Targets :
       /\ AcquireDap(t) => CreateSession(Manager, t).ret = sessionForTarget'[t]
       /\ (AcquireDap(t) /\ sessionForTarget[t] # 0) =>
            /\ CreateSession(Manager, t).ret = sessionForTarget[t]
            /\ futures' = futures
            /\ started' = started
       /\ (sessionForTarget[t] # 0 /\ sessionForTarget'[t] # sessionForTarget[t])
            => (ReleaseDap(t) \/ Dispose)]_vars

\* A creation that was handed an older, still pending future of its parent
\* from the cache: the second _createSession call for that parent.
C1_Witness ==
  \E f \in 1 .. Len(futures) :
    /\ futures[f].pc = "await"
    /\ futures[f].awaits < f
    /\ futures[futures[f].awaits].state = "pending"
    /\ sessionForTarget[futures[futures[f].awaits].target] = futures[f].awaits

RequestsFor(t) == {i \in DOMAIN started : started[i].marker = id(t)}

RequestsBy(f) == {i \in DOMAIN started : started[i].by = f}

\* C2 as claimed: at most one start request, and at most one materialized
\* Session, ever carries the marker of a given target.
C2_OnePerTarget ==
  \A t \in Targets :
    /\ Cardinality(RequestsFor(t)) <= 1
    /\ Cardinality({i \in RequestsFor(t) : started[i].status = "materialized"}) <= 1

\* C2, amended: every creation (single-flight future) of a target issues at
\* most one start request, which carries that target's marker, so a target
\* has at most as many start requests, and Sessions, as it had creations.
C2_OnePerCreation ==
  /\ \A f \in 1 .. Len(futures) : Cardinality(RequestsBy(f)) <= 1
  /\ \A i \in DOMAIN started :
       /\ started[i].by \in 1 .. Len(futures)
       /\ started[i].marker = id(futures[started[i].by].target)
  /\ \A t \in Targets :
       Cardinality(RequestsFor(t)) <=
         Cardinality({f \in 1 .. Len(futures) : futures[f].target = t})

\* A released target was acquired again and both creations asked the host.
C2_Witness ==
  \E t \in Targets :
    /\ Cardinality(RequestsFor(t)) = 2
    /\ \A i \in RequestsFor(t) : Cardinality(RequestsBy(started[i].by)) = 1

\* C3: the start request of a target with a parent target is nested under a
\* debug session that an earlier request with the parent's marker started and
\* whose createDebugAdapterDescriptor call has completed.
C3_ParentBeforeChild ==
  \A i \in DOMAIN started :
    LET t == futures[started[i].by].target
        d == started[i].parent
    IN parent(t) # None =>
         /\ d \in DOMAIN started
         /\ d < i
         /\ started[d].marker = id(parent(t))
         /\ started[d].status = "materialized"

\* One acquireDap("C") created the whole chain and C's request was issued.
C3_Witness ==
  /\ Len(futures) = 3
  /\ futures[1].target = "C" /\ futures[2].target = "B" /\ futures[3].target = "A"
  /\ RequestsBy(1) # {}

\* C4 as claimed: in the step that issues the start request of a target with
\* a parent target, the parent's Session (the one the request is nested
\* under) is in the sessions registry.
C4_ParentRegistered ==
  [][(Len(started') > Len(started)
        /\ parent(futures'[started'[Len(started')].by].target) # None)
       => started'[Len(started')].parent \in sessions]_vars

\* C5: releaseDap(T), called while sessionForTarget holds T's future and that
\* future is unsettled (its executor suspended on the parent, or its start
\* request issued and unanswered, or aborted), rejects that future (the one
\* rejection the manager makes, Error('Target gone')) and removes T from
\* sessionForTarget and sessionForTargetCallbacks.
C5_CancelRejects ==
  [][\A t \in Targets :
       (ReleaseDap(t) /\ sessionForTarget[t] # 0
          /\ futures[sessionForTarget[t]].state = "pending")
       => /\ futures'[sessionForTarget[t]].state = "rejected"
          /\ sessionForTarget'[t] = 0
          /\ sessionForTargetCallbacks'[t] = 0]_vars

\* Two cancelled creations: one rejected while suspended on its parent, one
\* rejected between its start request and the host's callback.
C5_Witness ==
  /\ \E f \in 1 .. Len(futures) :
       futures[f].state = "rejected" /\ futures[f].pc = "await"
  /\ \E g \in 1 .. Len(futures) :
       /\ futures[g].state = "rejected" /\ futures[g].pc = "done"
       /\ \E i \in RequestsBy(g) : started[i].status = "requested"

\* C6 as claimed: a future is resolved with the Session materialized for the
\* start request its own creation issued.
C6_FreshSession ==
  \A f \in 1 .. Len(futures) :
    futures[f].state = "fulfilled" =>
      /\ futures[f].value \in DOMAIN started
      /\ started[futures[f].value].by = f

\* C7 as claimed: releaseDap(T) for a target whose session is not yet
\* materialized leaves T in none of sessionForTarget,
\* sessionForTargetCallbacks and pendingTarget.
C7_NoLeak ==
  [][\A t \in Targets :
       (ReleaseDap(t) /\ sessionForTarget[t] # 0
          /\ futures[sessionForTarget[t]].state = "pending")
       => /\ sessionForTarget'[t] = 0
          /\ sessionForTargetCallbacks'[t] = 0
          /\ pendingTarget'[id(t)] = None]_vars

\* C8 as claimed: a creation that ended because the parent's future was
\* rejected leaves its own future settled and no pendingTarget or
\* sessionForTargetCallbacks entry behind.
C8_NoDanglingWaiter ==
  \A f \in 1 .. Len(futures) :
    (futures[f].pc = "threw" /\ futures[f].awaits # 0) =>
      /\ futures[f].state # "pending"
      /\ sessionForTargetCallbacks[futures[f].target] # f
      /\ pendingTarget[id(futures[f].target)] = None

\* C9: no Session is disposed (its transport closed) more than once, whatever
\* the order of termination notifications and dispose() calls, and a
\* termination notification for an identity not in sessions changes nothing.
C9_DisposeOnce ==
  [][/\ \A d \in DebugIds : sess'[d].closed <= 1
     /\ \A d \in DebugIds : (Terminate(d) /\ d \notin sessions) => UNCHANGED vars
     /\ \A d \in DebugIds : sess'[d].closed # sess[d].closed =>
          (d \in sessions /\ d \notin sessions')]_vars

\* dispose() ran, a session materialized after it, and a second dispose() or
\* a termination closed that one too: both closed exactly once.
C9_Witness ==
  /\ ~disposables
  /\ sessions = {}
  /\ \E d, e \in DebugIds :
       /\ d < e /\ e \in DOMAIN started
       /\ sess[d].closed = 1 /\ sess[e].closed = 1
       /\ pendingTarget[started[e].marker] = None

\* C10: releaseDap(T) changes nothing but T's entries in sessionForTarget and
\* sessionForTargetCallbacks and the state of T's own future: pendingTarget,
\* the sessions registry and the Sessions are unchanged, every other
\* target's entries and futures are unchanged, and a future is only ever
\* rejected by a releaseDap of its own target.
C10_FailureIsolation ==
  [][/\ \A t \in Targets :
          ReleaseDap(t) =>
            /\ sessions' = sessions /\ sess' = sess
            /\ pendingTarget' = pendingTarget
            /\ started' = started
            /\ \A u \in Targets \ {t} :
                 /\ sessionForTarget'[u] = sessionForTarget[u]
                 /\ sessionForTargetCallbacks'[u] = sessionForTargetCallbacks[u]
            /\ \A g \in 1 .. Len(futures) :
                 futures[g].target # t => futures'[g] = futures[g]
     /\ \A g \in 1 .. Len(futures) :
          (futures[g].state = "pending" /\ futures'[g].state = "rejected")
            => ReleaseDap(futures[g].target)]_vars

\* A's creation was cancelled while B's creation was suspended on it: B's
\* future is still pending and B's entries are still in place.
C10_Witness ==
  \E f, g \in 1 .. Len(futures) :
    /\ futures[f].target = "A" /\ futures[f].state = "rejected"
    /\ futures[g].target = "B" /\ futures[g].awaits = f
    /\ futures[g].state = "pending"
    /\ sessionForTarget["B"] = g /\ sessionForTargetCallbacks["B"] = g
    /\ pendingTarget[id("B")] = "B"

\* C11: every start request is an "attach" request that carries the marker of
\* the target its creation is for; the request of a target with a parent is
\* nested under the debug session of the Session the parent's future was
\* resolved with, the request of a parentless target under the session that
\* sessions holds at targetOrigin(); and acquireDap of a child whose parent's
\* future is already resolved creates one future, none for the parent, and
\* leads to exactly one new start request, issued when the child resumes.
C11_Nesting ==
  [][/\ \A i \in DOMAIN started' :
          LET r == started'[i]
              c == futures'[r.by]
          IN /\ r.request = "attach"
             /\ r.marker = id(c.target)
             /\ IF parent(c.target) = None
                  THEN r.parent = targetOrigin(c.target)
                  ELSE /\ c.awaits # 0
                       /\ futures'[c.awaits].target = parent(c.target)
                       /\ futures'[c.awaits].state = "fulfilled"
                       /\ r.parent = futures'[c.awaits].value
     /\ (Len(started') > Len(started)
           /\ parent(futures'[started'[Len(started')].by].target) = None)
          => started'[Len(started')].parent \in sessions
     /\ \A t \in Targets :
          (AcquireDap(t) /\ parent(t) # None /\ sessionForTarget[t] = 0
             /\ sessionForTarget[parent(t)] # 0
             /\ futures[sessionForTarget[parent(t)]].state = "fulfilled")
          => /\ started' = started
             /\ Len(futures') = Len(futures) + 1
             /\ futures'[Len(futures')].target = t
             /\ futures'[Len(futures')].awaits = sessionForTarget[parent(t)]
     /\ \A f \in 1 .. Len(futures) :
          (Resume(f) /\ futures[futures[f].awaits].state = "fulfilled")
          => /\ Len(started') = Len(started) + 1
             /\ started'[Len(started')].by = f
             /\ SubSeq(started', 1, Len(started)) = started]_vars

\* B was acquired after A's future was created, B's request is nested under
\* the Session A's future was resolved with, and A was asked for only once.
C11_Witness ==
  \E f, g \in 1 .. Len(futures) :
    /\ f < g
    /\ futures[f].target = "A" /\ futures[f].state = "fulfilled"
    /\ futures[g].target = "B" /\ futures[g].awaits = f
    /\ \E i \in RequestsBy(g) : started[i].parent = futures[f].value
    /\ Cardinality(RequestsFor("A")) = 1
    /\ Cardinality(RequestsFor("B")) = 1

\* C13 as claimed: while the manager is in use (dispose() has not run),
\* whenever the host calls createDebugAdapterDescriptor for a start request
\* the manager issued, pendingTarget holds a target for the request's marker.
C13_MarkerRegistered ==
  [][\A d \in DOMAIN started :
       (HostAttach(d) /\ disposables)
         => pendingTarget[started[d].marker] # None]_vars

C15_InsertedBeforeStart ==
  \A i \in DOMAIN started : started[i].inserted

\* C16 as claimed: a creation for a parentless target that found no session
\* at targetOrigin() issued no start request and its future is rejected.
C16_MissingOriginFails ==
  \A f \in 1 .. Len(futures) :
    (futures[f].pc = "threw" /\ futures[f].awaits = 0) =>
      /\ RequestsBy(f) = {}
      /\ futures[f].state = "rejected"

\* C17: dispose() disposes every Session that was in sessions and leaves
\* sessions, pendingTarget, sessionForTarget and sessionForTargetCallbacks
\* empty, whatever creations are in flight.
C17_DisposePostcondition ==
  [][Dispose =>
       /\ \A d \in sessions : sess'[d].closed = sess[d].closed + 1
       /\ sessions' = {}
       /\ \A i \in Ids : pendingTarget'[i] = None
       /\ \A t \in Targets :
            sessionForTarget'[t] = 0 /\ sessionForTargetCallbacks'[t] = 0]_vars

\* dispose() ran while a creation was suspended on its parent and another
\* awaited the host: a Session was disposed and the registries are empty.
C17_Witness ==
  /\ ~disposables
  /\ sessions = {}
  /\ \E d \in DebugIds : sess[d].closed = 1
  /\ \A i \in Ids : pendingTarget[i] = None
  /\ \A t \in Targets :
       sessionForTarget[t] = 0 /\ sessionForTargetCallbacks[t] = 0
  /\ \E f \in 1 .. Len(futures) :
       futures[f].state = "pending" /\ futures[f].pc = "await"
  /\ \E i \in DOMAIN started : started[i].status = "requested"

\* C18: between operations, a target with a {fulfill, reject} pair in
\* sessionForTargetCallbacks has that same, still pending future cached in
\* sessionForTarget and is registered under its id in pendingTarget.
C18_RegistryConsistency ==
  \A t \in Targets :
    sessionForTargetCallbacks[t] # 0 =>
      /\ sessionForTarget[t] = sessionForTargetCallbacks[t]
      /\ futures[sessionForTargetCallbacks[t]].state = "pending"
      /\ futures[sessionForTargetCallbacks[t]].target = t
      /\ pendingTarget[id(t)] = t

\* A pair is pending for a target that was cancelled once and acquired again.
C18_Witness ==
  \E t \in Targets :
    /\ sessionForTargetCallbacks[t] # 0
    /\ \E f \in 1 .. Len(futures) :
         futures[f].target = t /\ futures[f].state = "rejected"

\* C19: releaseDap(T) called after T's future was resolved only removes T
\* from sessionForTarget: sessions, the Sessions, pendingTarget, the pending
\* pairs, every future and the start requests are unchanged; called while T
\* has no entry, it changes nothing at all.
C19_ReleaseAfterResolve ==
  [][\A t \in Targets :
       /\ (ReleaseDap(t) /\ sessionForTarget[t] # 0
             /\ futures[sessionForTarget[t]].state = "fulfilled")
            => /\ sessionForTarget' = [sessionForTarget EXCEPT ![t] = 0]
               /\ UNCHANGED <<checkVersion, targetName, sess, sessions, pendingTarget,
                              sessionForTargetCallbacks, futures, started,
                              disposables>>
       /\ (ReleaseDap(t) /\ sessionForTarget[t] = 0) => UNCHANGED vars]_vars

\* A target whose future was resolved has been released: its entry is gone,
\* its Session is still registered and not disposed.
C19_Witness ==
  /\ disposables
  /\ \E f \in 1 .. Len(futures) :
       /\ futures[f].state = "fulfilled"
       /\ sessionForTarget[futures[f].target] = 0
       /\ futures[f].value \in sessions
       /\ sess[futures[f].value].closed = 0

\* A future whose {fulfill, reject} pair the manager no longer holds.
Dropped(f) ==
  futures[f].state = "pending" /\ sessionForTargetCallbacks[futures[f].target] # f

\* C20: dispose() leaves every future that was unresolved pending, without
\* its {fulfill, reject} pair; such a future is never settled afterwards and
\* never gets a pair back, whatever runs later, and a creation suspended on
\* it never issues a start request.
C20_DroppedWaiters ==
  [][/\ Dispose =>
          \A f \in 1 .. Len(futures) :
            futures[f].state = "pending" =>
              /\ futures'[f].state = "pending"
              /\ sessionForTargetCallbacks'[futures[f].target] # f
     /\ \A f \in 1 .. Len(futures) :
          Dropped(f) =>
            /\ futures'[f].state = "pending"
            /\ sessionForTargetCallbacks'[futures[f].target] # f
            /\ \A g \in 1 .. Len(futures) :
                 futures[g].awaits = f =>
                   /\ futures'[g].pc = futures[g].pc
                   /\ \A i \in DOMAIN started' : started'[i].by # g]_vars

\* After dispose() a dropped future is still pending although its target was
\* acquired again and a late host callback resolved the new future, and a
\* creation is still suspended on a dropped future.
C20_Witness ==
  /\ ~disposables
  /\ \E f, g \in 1 .. Len(futures) :
       /\ f < g
       /\ futures[f].target = futures[g].target
       /\ Dropped(f)
       /\ futures[g].state = "fulfilled"
  /\ \E f, g \in 1 .. Len(futures) :
       Dropped(f) /\ futures[g].awaits = f /\ futures[g].pc = "await"

\* C12: a name-change notification of target T assigns T's current name,
\* once, to the debug session of every Session that was materialized with
\* T's marker, when the capability check passes and the Session has not been
\* disposed, and changes no other Session; a debug session's name is
\* assigned by nothing else; and when the capability check fails no Session
\* is ever subscribed or updated.
C12_NamePropagation ==
  [][/\ \A t \in Targets :
          NameChanged(t) =>
            \A d \in DebugIds :
              IF /\ checkVersion
                 /\ d \in DOMAIN started
                 /\ started[d].status = "materialized"
                 /\ started[d].marker = id(t)
                 /\ sess[d].closed = 0
                THEN /\ sess'[d].name = targetName'[t]
                     /\ sess'[d].updates = sess[d].updates + 1
                ELSE sess'[d] = sess[d]
     /\ \A d \in DebugIds :
          (sess'[d].updates # sess[d].updates
             \/ (sess[d].made /\ sess'[d].name # sess[d].name))
            => \E t \in Targets : NameChanged(t)
     /\ ~checkVersion =>
          \A d \in DebugIds :
            sess'[d].listening = None /\ sess'[d].updates = 0]_vars

\* Two Sessions were materialized for the same target: one was disposed
\* before the target's name changed and kept its name, the other was live
\* and carries the new name after one update.
C12_Witness ==
  /\ checkVersion
  /\ \E d, e \in DOMAIN started :
       /\ started[d].marker = started[e].marker
       /\ started[d].status = "materialized"
       /\ started[e].status = "materialized"
       /\ sess[d].closed = 0 /\ sess[d].updates = 1
       /\ sess[d].name = targetName[futures[started[d].by].target]
       /\ sess[d].name # started[d].name
       /\ sess[e].closed = 1 /\ sess[e].updates = 0
       /\ sess[e].name = started[e].name

=============================================================================
